---- MODULE Spec2Model ----
(***************************************************************************)
(* Model of the career recommendation handler                              *)
(*   backend/src/controllers/careerController.js  (recommendCareer)        *)
(*   backend/src/routes/careerRoutes.js           (POST /recommend)        *)
(* The Roles and Skills tables are the two JSON modules the controller     *)
(* imports; they are chosen once, at load, and every request is one        *)
(* synchronous run of the handler.                                         *)
(***************************************************************************)
EXTENDS Integers, Sequences, FiniteSets, TLC

VARIABLES roles, skillsData, pc, req, responses, threw, steps, missingSkills, sample, rounded

vars == <<roles, skillsData, pc, req, responses, threw, steps, missingSkills, sample, rounded>>

(* ------------------------------ bounds --------------------------------- *)
\* most roles in the Roles table
MaxRoles == 2
\* most entries of one role's requiredSkills
MaxRequired == 4
\* most entries of the request's skills array
MaxUserSkills == 2
\* largest demand value of a Skills table entry
MaxDemand == 2
\* largest totalRequired the rounding specification samples
MaxTotal == 40

(* ---------------------------- JS values -------------------------------- *)
\* the value of a lookup that found nothing
undefined == [type |-> "undefined"]

\* a JS Number that is an integer, and the Number NaN
Num(n) == [isNaN |-> FALSE, value |-> n]
NaN == [isNaN |-> TRUE, value |-> 0]

SkillPool == <<"Node", "SQL", "Docker", "React", "CSS", "Git", "AWS">>
RolePool == <<"Backend Developer", "Frontend Developer", "Data Analyst", "DevOps Engineer">>

\* the names a caller may send: the first and the last of the MaxRequired
\* pool names roles may require, and one that no role requires
UserNames == {SkillPool[1], SkillPool[MaxRequired], SkillPool[MaxRequired + 1]}

(* -------------------------- Array.prototype ---------------------------- *)
ArrayIncludes(arr, x) == \E i \in 1..Len(arr) : arr[i] = x

\* the elements of an array; a callback is modelled as the function from
\* the elements (or pairs of elements) it is called on to its results
Elements(arr) == {arr[i] : i \in 1..Len(arr)}

\* arr.filter(keep)
ArrayFilter(arr, keep) == SelectSeq(arr, LAMBDA x : keep[x])

\* arr.map(f)
ArrayMap(arr, f) == [i \in 1..Len(arr) |-> f[arr[i]]]

\* arr.find(pred): the first element satisfying pred, or undefined
ArrayFind(arr, pred) ==
  LET hits == {i \in 1..Len(arr) : pred[arr[i]]}
  IN IF hits = {} THEN undefined
     ELSE arr[CHOOSE i \in hits : \A j \in hits : i <= j]

\* arr.sort(cmp): stable (ECMAScript 2019): element i goes after every
\* element that compares before it and after every earlier equal element
ArraySort(arr, cmp) ==
  LET n == Len(arr)
      before(j, i) == \/ cmp[arr[j]][arr[i]] < 0
                      \/ (cmp[arr[j]][arr[i]] = 0 /\ j < i)
      pos(i) == 1 + Cardinality({j \in 1..n : j # i /\ before(j, i)})
  IN [p \in 1..n |-> arr[CHOOSE i \in 1..n : pos(i) = p]]

\* arr.slice(0, k)
ArraySlice(arr, k) == SubSeq(arr, 1, IF Len(arr) < k THEN Len(arr) ELSE k)

(* ------------------ IEEE-754 binary64 arithmetic ----------------------- *)
\* A positive double is [m, e]: m its 53 significand bits, most significant
\* first (m[1] = 1), and the value is m (read as an integer) * 2^e.
\* Zero is [m |-> <<>>, e |-> 0].  Only the operations of line 42 are needed:
\* integer / integer, double * 100 and Math.round.
SignificandBits == 53

Pow2(n) == <<1, 2, 4, 8, 16, 32, 64, 128, 256, 512, 1024>>[n + 1]

Zeros(n) == [i \in 1..n |-> 0]

RECURSIVE BitsToInt(_)
BitsToInt(bits) ==
  IF bits = <<>> THEN 0
  ELSE 2 * BitsToInt(SubSeq(bits, 1, Len(bits) - 1)) + bits[Len(bits)]

\* the w-bit binary form of v, most significant bit first
IntToBits(v, w) == [i \in 1..w |-> (v \div Pow2(w - i)) % 2]

StripLeadingZeros(bits) ==
  LET ones == {i \in 1..Len(bits) : bits[i] = 1}
  IN IF ones = {} THEN <<>>
     ELSE SubSeq(bits, CHOOSE i \in ones : \A j \in ones : i <= j, Len(bits))

\* bits + 1; a carry out of the top bit gives 1 followed by zeros
IncrementBits(bits) ==
  LET zs == {i \in 1..Len(bits) : bits[i] = 0}
  IN IF zs = {} THEN [bits |-> <<1>> \o Zeros(Len(bits) - 1), carry |-> 1]
     ELSE LET k == CHOOSE i \in zs : \A j \in zs : j <= i
          IN [bits |-> [i \in 1..Len(bits) |->
                          IF i < k THEN bits[i] ELSE IF i = k THEN 1 ELSE 0],
              carry |-> 0]

\* round bits * 2^e (bits[1] = 1; sticky: a nonzero part below the last bit)
\* to the nearest double, ties to even
RoundToDouble(bits, e, sticky) ==
  LET L == Len(bits)
  IN IF L <= SignificandBits
     THEN [m |-> bits \o Zeros(SignificandBits - L), e |-> e - (SignificandBits - L)]
     ELSE LET keep == SubSeq(bits, 1, SignificandBits)
              half == bits[SignificandBits + 1] = 1
              rest == sticky \/ \E i \in (SignificandBits + 2)..L : bits[i] = 1
              up   == half /\ (rest \/ keep[SignificandBits] = 1)
              inc  == IncrementBits(keep)
          IN IF up THEN [m |-> inc.bits, e |-> e + (L - SignificandBits) + inc.carry]
             ELSE [m |-> keep, e |-> e + (L - SignificandBits)]

\* 2^n mod d
RECURSIVE Pow2Mod(_, _)
Pow2Mod(n, d) ==
  IF n = 0 THEN 1 % d
  ELSE IF n % 2 = 0 THEN LET h == Pow2Mod(n \div 2, d) IN (h * h) % d
  ELSE (2 * Pow2Mod(n - 1, d)) % d

\* the first n bits of the binary expansion of r / d (0 <= r < d), and the
\* remainder left after them
DivBits(r, d, n) ==
  LET remAfter(i) == (r * Pow2Mod(i, d)) % d
  IN [bits |-> [i \in 1..n |-> IF 2 * remAfter(i - 1) >= d THEN 1 ELSE 0],
      rem |-> remAfter(n)]

\* a / b for integers 0 < a <= b, correctly rounded
DoubleDivide(a, b) ==
  LET k == CHOOSE i \in 0..10 : a * Pow2(i) >= b /\ \A j \in 0..(i - 1) : a * Pow2(j) < b
      q == DivBits(a * Pow2(k) - b, b, SignificandBits)
  IN RoundToDouble(<<1>> \o q.bits, 0 - SignificandBits - k, q.rem # 0)

\* 10-bit limbs (least significant first) times the small integer c, plus carry;
\* the result keeps its limbs least significant first, the carry out last
RECURSIVE MulLimbs(_, _, _)
MulLimbs(limbs, c, carry) ==
  IF limbs = <<>> THEN <<carry>>
  ELSE LET t == c * Head(limbs) + carry
       IN <<t % 1024>> \o MulLimbs(Tail(limbs), c, t \div 1024)

\* x * c for a positive double x and an integer 0 < c < 1024, correctly
\* rounded; the significand is multiplied as six limbs of ten bits
DoubleMultiply(x, c) ==
  LET LimbBits == 10
      LimbCount == 6
      padded == Zeros(LimbBits * LimbCount - SignificandBits) \o x.m
      limb(i) == BitsToInt(SubSeq(padded, LimbBits * (LimbCount - i) + 1,
                                          LimbBits * (LimbCount - i + 1)))
      prod == MulLimbs([i \in 1..LimbCount |-> limb(i)], c, 0)
      bitAt(p) == IntToBits(prod[LimbCount + 1 - ((p - 1) \div LimbBits)], LimbBits)[((p - 1) % LimbBits) + 1]
      bits == [p \in 1..(LimbBits * (LimbCount + 1)) |-> bitAt(p)]
  IN RoundToDouble(StripLeadingZeros(bits), x.e, FALSE)

\* Math.round(x) for a double 0 < x < 256: floor(x + 1/2), computed exactly
MathRound(x) ==
  LET ip == SignificandBits + x.e
  IN IF ip < 0 THEN 0
     ELSE BitsToInt(SubSeq(x.m, 1, ip)) + x.m[ip + 1]

\* Math.round((matchCount / totalRequired) * 100) for every ratio the model
\* can form, evaluated once
MaxRatio == IF MaxTotal > MaxRequired THEN MaxTotal ELSE MaxRequired
RoundedPercent ==
  [t \in 1..MaxRatio |->
     [c \in 0..t |->
        IF c = 0 THEN 0
        ELSE MathRound(DoubleMultiply(DoubleDivide(c, t), 100))]]

\* MatchPercentage with the division by totalRequired forgotten
MatchPercentageOfCount(matchCount, totalRequired) ==
  IF totalRequired = 0 THEN NaN ELSE Num(matchCount * 100)

\* line 42: Math.round((matchCount / totalRequired) * 100); 0 / 0 is NaN
MatchPercentage(matchCount, totalRequired) ==
  IF totalRequired = 0 THEN NaN
  ELSE Num(RoundedPercent[totalRequired][matchCount])

(* ------------------------------ tables --------------------------------- *)
\* the requiredSkills lists of the i-th role: a run of the first MaxRequired
\* pool names, leading for odd i and trailing for even i, the empty list
\* included
RequiredLists(i) ==
  IF i % 2 = 1 THEN {SubSeq(SkillPool, 1, n) : n \in 0..MaxRequired}
  ELSE {SubSeq(SkillPool, MaxRequired + 1 - n, MaxRequired) : n \in 0..MaxRequired}

\* roles.json: up to MaxRoles roles with distinct names
RoleTables ==
  UNION {{[i \in 1..n |-> [role |-> RolePool[i], requiredSkills |-> f[i]]] :
            f \in {g \in [1..n -> UNION {RequiredLists(i) : i \in 1..n}] :
                     \A i \in 1..n : g[i] \in RequiredLists(i)}} : n \in 0..MaxRoles}

\* the demand of the i-th pool name, cycling through 1..MaxDemand
DemandOf(i) == 1 + (i % MaxDemand)

\* skills.json: entries for a run of consecutive pool names, possibly none
SkillTables ==
  {[i \in 1..(hi + 1 - lo) |-> [name |-> SkillPool[lo + i - 1], demand |-> DemandOf(lo + i - 1)]] :
     lo \in 1..(MaxRequired + 1), hi \in 0..MaxRequired}

\* request bodies: {} (no skills field) and {"skills": [...]}
SkillArrays == UNION {[1..n -> UserNames] : n \in 0..MaxUserSkills}
NoBody == [k \in {} |-> <<>>]
Bodies == {NoBody} \cup {[skills |-> a] : a \in SkillArrays}

(* ------------------------------ scoring -------------------------------- *)
\* utils/scoring.js: the score of a skill's metadata; absent metadata
\* contributes the default 0
calculateScore(skillInfo) ==
  IF skillInfo = undefined THEN 0 ELSE skillInfo.demand

(* ------------------------------ handler -------------------------------- *)
\* line 6: req.body.skills || []
UserSkills(body) == IF "skills" \in DOMAIN body THEN body.skills ELSE <<>>

\* lines 14-24: every role with its matchCount and totalRequired
ScoredRoles(rs, userSkills) ==
  ArrayMap(rs, [role \in Elements(rs) |->
    [role |-> role.role,
     matchCount |-> Len(ArrayFilter(role.requiredSkills,
                          [skill \in Elements(role.requiredSkills) |->
                             ArrayIncludes(userSkills, skill)])),
     totalRequired |-> Len(role.requiredSkills)]])

\* line 25: (a, b) => b.matchCount - a.matchCount
ByMatchCount(arr) ==
  [a \in Elements(arr) |-> [b \in Elements(arr) |-> b.matchCount - a.matchCount]]

\* MatchedRole with the comparator's operands swapped (ascending sort)
MatchedRoleAscending(rs, userSkills) ==
  LET scored == ScoredRoles(rs, userSkills)
      sorted == ArraySort(scored, [a \in Elements(scored) |->
                                    [b \in Elements(scored) |-> a.matchCount - b.matchCount]])
  IN IF Len(sorted) = 0 THEN undefined ELSE sorted[1]

\* MatchedRole as a scan that keeps the later role on equal matchCount
MatchedRoleLastMax(rs, userSkills) ==
  LET scored == ScoredRoles(rs, userSkills)
      best == {i \in 1..Len(scored) :
                 \A j \in 1..Len(scored) : scored[j].matchCount <= scored[i].matchCount}
  IN IF Len(scored) = 0 THEN undefined
     ELSE scored[CHOOSE i \in best : \A j \in best : j <= i]

\* lines 13-25: the first element of the scored roles sorted by descending
\* matchCount; undefined for an empty table
MatchedRole(rs, userSkills) ==
  LET scored == ScoredRoles(rs, userSkills)
      sorted == ArraySort(scored, ByMatchCount(scored))
  IN IF Len(sorted) = 0 THEN undefined ELSE sorted[1]

\* line 28: roles.find(r => r.role === matchedRole.role)
TargetRole(rs, name) == ArrayFind(rs, [r \in Elements(rs) |-> r.role = name])

\* line 33: skillsData.find(s => s.name === skill)
SkillInfo(sd, skill) == ArrayFind(sd, [s \in Elements(sd) |-> s.name = skill])

\* line 35: { skill, score, ...skillInfo }
SkillEntry(skill, score, skillInfo) ==
  IF skillInfo = undefined THEN [skill |-> skill, score |-> score]
  ELSE [skill |-> skill, score |-> score,
        name |-> skillInfo.name, demand |-> skillInfo.demand]

\* lines 32-36: skill => { skill, score, ...skillInfo }
ScoredSkill(sd, skill) ==
  SkillEntry(skill, calculateScore(SkillInfo(sd, skill)), SkillInfo(sd, skill))

\* MissingSkills with the negation of the membership test dropped
MissingSkillsOwned(targetRole, userSkills, sd) ==
  LET owned == ArrayFilter(targetRole.requiredSkills,
                 [skill \in Elements(targetRole.requiredSkills) |->
                    ArrayIncludes(userSkills, skill)])
  IN ArrayMap(owned, [skill \in Elements(owned) |-> ScoredSkill(sd, skill)])

\* MissingSkills that drops the skills the Skills table does not know
MissingSkillsKnownOnly(targetRole, userSkills, sd) ==
  LET known == ArrayFilter(targetRole.requiredSkills,
                 [skill \in Elements(targetRole.requiredSkills) |->
                    /\ ~ArrayIncludes(userSkills, skill)
                    /\ SkillInfo(sd, skill) # undefined])
  IN ArrayMap(known, [skill \in Elements(known) |-> ScoredSkill(sd, skill)])

\* lines 30-36: the target role's skills the caller lacks, each looked up in
\* the Skills table and scored
MissingSkills(targetRole, userSkills, sd) ==
  LET lacking == ArrayFilter(targetRole.requiredSkills,
                   [skill \in Elements(targetRole.requiredSkills) |->
                      ~ArrayIncludes(userSkills, skill)])
  IN ArrayMap(lacking, [skill \in Elements(lacking) |-> ScoredSkill(sd, skill)])

\* line 38: (a, b) => b.score - a.score
ByScore(arr) ==
  [a \in Elements(arr) |-> [b \in Elements(arr) |-> b.score - a.score]]

\* SortedRecommendations as an ascending sort followed by reverse()
SortedRecommendationsReversed(missing) ==
  LET asc == ArraySort(missing, [a \in Elements(missing) |->
                                  [b \in Elements(missing) |-> a.score - b.score]])
  IN [i \in 1..Len(asc) |-> asc[Len(asc) + 1 - i]]

\* SortedRecommendations that truncates before it sorts
SortedRecommendationsOfFirstThree(missing) ==
  ArraySort(ArraySlice(missing, 3), ByScore(missing))

\* line 38: missingSkills.sort((a, b) => b.score - a.score)
SortedRecommendations(missing) == ArraySort(missing, ByScore(missing))

\* lines 40-44: the body passed to res.json
SuccessBody(matchedRole, sortedRecommendations) ==
  [role |-> matchedRole.role,
   matchPercentage |-> MatchPercentage(matchedRole.matchCount, matchedRole.totalRequired),
   recommendedSkills |-> ArraySlice(sortedRecommendations, 3)]

\* Rejected as !userSkills: an array, even an empty one, is truthy
RejectedIfFalsy(userSkills) == FALSE

\* line 8: !userSkills.length
Rejected(userSkills) == Len(userSkills) = 0

\* lines 5-45: one run of the handler on the tables rs and sd
Handle(rs, sd, body) ==
  LET userSkills == UserSkills(body)
      matchedRole == MatchedRole(rs, userSkills)
      targetRole == TargetRole(rs, matchedRole.role)
      missing == MissingSkills(targetRole, userSkills, sd)
  IN IF Rejected(userSkills)
     THEN [responses |-> <<[status |-> 400, body |-> [message |-> "Skills are required"]]>>,
           threw |-> FALSE, steps |-> {}, missingSkills |-> <<>>]
     ELSE IF matchedRole = undefined \/ targetRole = undefined
     THEN \* TypeError reading a property of undefined (line 28 or 30)
          [responses |-> <<>>, threw |-> TRUE, steps |-> {"roleMatching"},
           missingSkills |-> <<>>]
     ELSE [responses |-> <<[status |-> 200,
                            body |-> SuccessBody(matchedRole, SortedRecommendations(missing))]>>,
           threw |-> FALSE,
           steps |-> {"roleMatching"} \cup
                     (IF Len(missing) > 0 THEN {"skillLookup", "scoring"} ELSE {}),
           missingSkills |-> missing]

(* --------------------------- specification ----------------------------- *)
Init ==
  /\ roles \in RoleTables
  /\ skillsData \in SkillTables
  /\ pc = "idle"
  /\ req = NoBody
  /\ responses = <<>>
  /\ threw = FALSE
  /\ steps = {}
  /\ missingSkills = <<>>
  /\ sample = [matchCount |-> 0, totalRequired |-> 0]
  /\ rounded = <<>>

\* careerRoutes.js line 5: a POST /api/career/recommend with the given JSON
\* body is dispatched to the handler with a fresh response object
PostRecommend(body) ==
  /\ pc = "idle"
  /\ pc' = "dispatched"
  /\ req' = body
  /\ responses' = <<>>
  /\ threw' = FALSE
  /\ steps' = {}
  /\ missingSkills' = <<>>
  /\ UNCHANGED <<roles, skillsData, sample, rounded>>

\* recommendCareer with line 25 sorting the Roles table itself
recommendCareerSortingRoles ==
  /\ pc = "dispatched"
  /\ LET out == Handle(roles, skillsData, req)
         count(role) == Cardinality({i \in 1..Len(role.requiredSkills) :
                              ArrayIncludes(UserSkills(req), role.requiredSkills[i])})
     IN /\ responses' = out.responses
        /\ threw' = out.threw
        /\ steps' = out.steps
        /\ missingSkills' = out.missingSkills
        /\ roles' = IF Rejected(UserSkills(req)) THEN roles
                    ELSE ArraySort(roles, [a \in Elements(roles) |->
                                            [b \in Elements(roles) |-> count(b) - count(a)]])
  /\ pc' = "returned"
  /\ UNCHANGED <<skillsData, req, sample, rounded>>

\* careerController.js lines 5-45: the handler runs to completion on the
\* dispatched request; the tables are only read
recommendCareer ==
  /\ pc = "dispatched"
  /\ LET out == Handle(roles, skillsData, req)
     IN /\ responses' = out.responses
        /\ threw' = out.threw
        /\ steps' = out.steps
        /\ missingSkills' = out.missingSkills
  /\ pc' = "returned"
  /\ UNCHANGED <<roles, skillsData, req, sample, rounded>>

\* the request and response objects of a finished request are dropped
EndRequest ==
  /\ pc = "returned"
  /\ pc' = "idle"
  /\ req' = NoBody
  /\ responses' = <<>>
  /\ threw' = FALSE
  /\ steps' = {}
  /\ missingSkills' = <<>>
  /\ UNCHANGED <<roles, skillsData, sample, rounded>>

Next ==
  \/ \E body \in Bodies : PostRecommend(body)
  \/ recommendCareer
  \/ EndRequest

Spec == Init /\ [][Next]_vars

(* ---------------- the percentage as a function of its ratio ------------ *)
InitRound ==
  /\ roles = <<>>
  /\ skillsData = <<>>
  /\ pc = "idle"
  /\ req = NoBody
  /\ responses = <<>>
  /\ threw = FALSE
  /\ steps = {}
  /\ missingSkills = <<>>
  /\ sample \in {[matchCount |-> c, totalRequired |-> t] : c \in 0..MaxTotal, t \in 1..MaxTotal}
  /\ sample.matchCount <= sample.totalRequired
  /\ rounded = <<>>

\* line 42 applied to the sampled matchCount and totalRequired
RoundSample ==
  /\ rounded = <<>>
  /\ rounded' = <<MatchPercentage(sample.matchCount, sample.totalRequired)>>
  /\ UNCHANGED <<roles, skillsData, pc, req, responses, threw, steps, missingSkills, sample>>

NextRound == RoundSample

SpecRound == InitRound /\ [][NextRound]_vars

(* ------------------------------ claims --------------------------------- *)
\* what the claims read off the state, stated without the handler's operators
Returned == pc = "returned"
Answered == Returned /\ Len(responses) = 1 /\ responses[1].status = 200
Reply == responses[1].body
Recommended == Reply.recommendedSkills

HasSkills == "skills" \in DOMAIN req /\ Len(req.skills) > 0
UserSkillSet == IF "skills" \in DOMAIN req THEN {req.skills[i] : i \in 1..Len(req.skills)} ELSE {}

RoleIndexes == 1..Len(roles)
ReturnedIndexes == {i \in RoleIndexes : roles[i].role = Reply.role}
ReturnedRole == roles[CHOOSE i \in ReturnedIndexes : TRUE]
Required(role) == {role.requiredSkills[i] : i \in 1..Len(role.requiredSkills)}
MatchCountOf(role) ==
  Cardinality({i \in 1..Len(role.requiredSkills) : role.requiredSkills[i] \in UserSkillSet})
MissingCountOf(role) ==
  Cardinality({i \in 1..Len(role.requiredSkills) : role.requiredSkills[i] \notin UserSkillSet})
PositionIn(role, skill) ==
  CHOOSE i \in 1..Len(role.requiredSkills) : role.requiredSkills[i] = skill
KnownSkills == {skillsData[i].name : i \in 1..Len(skillsData)}

\* C1 (as stated): a request with a non-empty skills list against a non-empty
\* Roles table gets exactly one success response, whose role names a role of
\* the table and whose matchPercentage is an integer in 0..100, never NaN,
\* whatever the sizes of the requiredSkills lists.
C1_PercentageAlwaysInRange ==
  (Returned /\ HasSkills /\ Len(roles) > 0) =>
    /\ Answered
    /\ ~threw
    /\ ReturnedIndexes # {}
    /\ ~Reply.matchPercentage.isNaN
    /\ Reply.matchPercentage.value \in 0..100

\* C1 (amended): the same, with the matchPercentage an integer in 0..100 when
\* the returned role has at least one required skill and NaN when it has none.
C1_OneAnswerPercentageInRange ==
  (Returned /\ HasSkills /\ Len(roles) > 0) =>
    /\ Answered
    /\ ~threw
    /\ ReturnedIndexes # {}
    /\ (Len(ReturnedRole.requiredSkills) > 0 =>
          /\ ~Reply.matchPercentage.isNaN
          /\ Reply.matchPercentage.value \in 0..100)
    /\ (Len(ReturnedRole.requiredSkills) = 0 => Reply.matchPercentage.isNaN)

C1_Witness ==
  /\ Answered /\ HasSkills
  /\ Len(roles) = 2
  /\ Len(roles[1].requiredSkills) # Len(roles[2].requiredSkills)
  /\ Reply.matchPercentage = Num(100)
  /\ Len(req.skills) = 2 /\ req.skills[1] = req.skills[2]

\* C2: the returned role's matchCount is at least the matchCount of every
\* role of the table.
C2_ReturnedRoleHasMaximalMatchCount ==
  Answered => \A j \in RoleIndexes : MatchCountOf(ReturnedRole) >= MatchCountOf(roles[j])

C2_Witness ==
  /\ Answered
  /\ Len(roles) = 2
  /\ Reply.role = roles[2].role
  /\ MatchCountOf(roles[2]) > MatchCountOf(roles[1])
  /\ MatchCountOf(roles[1]) > 0

\* C3: among the roles with maximal matchCount the returned one is the first
\* in the table's order: every role before it has a strictly smaller matchCount.
C3_FirstOfTheMaximalRoles ==
  Answered =>
    \A i \in ReturnedIndexes : \A j \in 1..(i - 1) :
      MatchCountOf(roles[j]) < MatchCountOf(roles[i])

C3_Witness ==
  /\ Answered
  /\ Len(roles) = 2
  /\ MatchCountOf(roles[1]) = MatchCountOf(roles[2])
  /\ MatchCountOf(roles[1]) > 0
  /\ roles[1].requiredSkills # roles[2].requiredSkills
  /\ Reply.role = roles[1].role

\* C4: the percentage is 100 * matchCount / totalRequired rounded to the
\* nearest integer, halves rounded up.
C4_RoundsHalfUp ==
  rounded # <<>> =>
    rounded[1] = Num((200 * sample.matchCount + sample.totalRequired)
                       \div (2 * sample.totalRequired))

\* C5: every recommended skill is required by the returned role and is not
\* one of the caller's skills.
C5_RecommendedAreMissingSkillsOfReturnedRole ==
  Answered =>
    \A i \in 1..Len(Recommended) :
      /\ Recommended[i].skill \in Required(ReturnedRole)
      /\ Recommended[i].skill \notin UserSkillSet

C5_Witness ==
  /\ Answered
  /\ Len(Recommended) >= 2
  /\ MatchCountOf(ReturnedRole) >= 1
  /\ Len(roles) = 2
  /\ Reply.role = roles[2].role
  /\ \E s \in Required(roles[1]) : s \notin Required(roles[2]) /\ s \notin UserSkillSet

\* C6: the recommended skills are in non-increasing score order, and entries
\* with equal scores keep the order their skills have in the returned role's
\* requiredSkills.
C6_RecommendedSortedByScoreStable ==
  Answered =>
    \A i, j \in 1..Len(Recommended) :
      i < j =>
        /\ Recommended[i].score >= Recommended[j].score
        /\ (Recommended[i].score = Recommended[j].score =>
              PositionIn(ReturnedRole, Recommended[i].skill)
                < PositionIn(ReturnedRole, Recommended[j].skill))

C6_Witness ==
  /\ Answered
  /\ Len(Recommended) = 3
  /\ Recommended[1].score > Recommended[2].score
  /\ Recommended[2].score = Recommended[3].score
  /\ PositionIn(ReturnedRole, Recommended[1].skill)
       > PositionIn(ReturnedRole, Recommended[3].skill)

\* C7: recommendedSkills has min(3, number of missing skills) entries, they
\* are the first entries of the score-sorted missing skills, and no missing
\* skill left out has a strictly higher score than a returned one.
C7_TruncatedToTopThree ==
  Answered =>
    LET n == MissingCountOf(ReturnedRole)
        returned == {Recommended[i].skill : i \in 1..Len(Recommended)}
        leftOut == {k \in 1..Len(missingSkills) : missingSkills[k].skill \notin returned}
    IN /\ Len(Recommended) = IF n < 3 THEN n ELSE 3
       /\ Len(missingSkills) = n
       /\ \A i \in 1..Len(Recommended) :
            \E k \in 1..Len(missingSkills) : missingSkills[k] = Recommended[i]
       /\ \A k \in leftOut : \A i \in 1..Len(Recommended) :
            \/ missingSkills[k].score < Recommended[i].score
            \/ /\ missingSkills[k].score = Recommended[i].score
               /\ PositionIn(ReturnedRole, missingSkills[k].skill)
                    > PositionIn(ReturnedRole, Recommended[i].skill)

C7_Witness ==
  /\ Answered
  /\ Len(missingSkills) = 4
  /\ Len(Recommended) = 3
  /\ missingSkills[1].skill \notin {Recommended[i].skill : i \in 1..3}
  /\ missingSkills[1].score < Recommended[3].score

\* C8: a request without a skills field, or with an empty skills array, gets
\* the single response 400 {"message": "Skills are required"} and none of the
\* matching, lookup or scoring steps runs.
C8_EmptySkillsRejected ==
  (Returned /\ ~HasSkills) =>
    /\ responses = <<[status |-> 400, body |-> [message |-> "Skills are required"]]>>
    /\ steps = {}
    /\ missingSkills = <<>>
    /\ ~threw

C8_Witness ==
  /\ Returned
  /\ "skills" \in DOMAIN req /\ req.skills = <<>>
  /\ Len(roles) = 2 /\ Len(skillsData) > 0
  /\ Len(responses) = 1 /\ responses[1].status = 400

\* C9: a missing skill of the returned role that has no Skills table entry
\* does not abort the request: the request is answered, and the skill is in
\* the candidate list with its name and a score and no metadata fields.
C9_UnknownSkillStillScored ==
  (Returned /\ HasSkills /\ Len(roles) > 0) =>
    /\ Answered
    /\ \A s \in Required(ReturnedRole) :
         (s \notin UserSkillSet /\ s \notin KnownSkills) =>
           \E k \in 1..Len(missingSkills) :
             /\ missingSkills[k].skill = s
             /\ DOMAIN missingSkills[k] = {"skill", "score"}
             /\ missingSkills[k].score \in Int
             /\ "scoring" \in steps /\ "skillLookup" \in steps

C9_Witness ==
  /\ Answered
  /\ \E s \in Required(ReturnedRole) : s \notin UserSkillSet /\ s \notin KnownSkills
  /\ \E s \in Required(ReturnedRole) : s \notin UserSkillSet /\ s \in KnownSkills
  /\ \E i \in 1..Len(Recommended) : DOMAIN Recommended[i] = {"skill", "score"}

\* C10: no step changes the Roles table or the Skills table.
C10_TablesNeverChange ==
  [][roles' = roles /\ skillsData' = skillsData]_vars

C10_Witness ==
  /\ Answered
  /\ Len(roles) = 2
  /\ Reply.role = roles[2].role
  /\ Len(Recommended) >= 2
  /\ PositionIn(ReturnedRole, Recommended[1].skill)
       > PositionIn(ReturnedRole, Recommended[2].skill)

====
